---- MODULE Spec2Model ----
(***************************************************************************)
(* Model of jetbrains_projects.py: the scanner of JetBrains "recent        *)
(* projects" metadata (parse_recent_projects_xml, find_all_recent_projects,*)
(* the two display functions, export_to_json and main).                    *)
(*                                                                         *)
(* Python strings are sequences of one-character strings, so that          *)
(* str.replace, the substring test and the string comparison of the sort   *)
(* key are computed as Python computes them.  Python's None is the value   *)
(* None below, which is no string.  An XML document is the sequence of its *)
(* elements in document order, each with its tag, the index of its parent  *)
(* (0 for the root) and its attributes.                                    *)
(***************************************************************************)
EXTENDS Integers, Sequences, FiniteSets, TLC

VARIABLES
    environ,        \* os.environ restricted to JSON_OUTPUT_PATH (None: not set)
    config_exists,  \* whether ~/.config/JetBrains exists
    visited,        \* the entries config_dir.iterdir() has yielded so far
    all_projects,   \* find_all_recent_projects: all_projects / main: projects
    pc,             \* position of main()
    stdout,         \* the report sections printed so far
    json_file,      \* what export_to_json wrote: <<>> or <<[name, data]>>
    fs,             \* the project paths that exist on disk right now
    xml_file,       \* argument of the last direct parse_recent_projects_xml call
    parsed          \* result of that call

vars == <<environ, config_exists, visited, all_projects, pc, stdout, json_file,
          fs, xml_file, parsed>>

-----------------------------------------------------------------------------
(* Strings *)

None == <<"<None>">>

s_USER_HOME == <<"$", "U", "S", "E", "R", "_", "H", "O", "M", "E", "$">>
s_HOME == <<"$", "H", "O", "M", "E", "$">>
s_RecentProject == <<"R", "e", "c", "e", "n", "t", "P", "r", "o", "j", "e", "c", "t">>
s_RecentSolution == <<"R", "e", "c", "e", "n", "t", "S", "o", "l", "u", "t", "i", "o", "n">>
s_additionalInfo == <<"a", "d", "d", "i", "t", "i", "o", "n", "a", "l", "I", "n", "f", "o">>
s_lastOpenedProject == <<"l", "a", "s", "t", "O", "p", "e", "n", "e", "d", "P", "r", "o", "j", "e", "c", "t">>
s_displayName == <<"d", "i", "s", "p", "l", "a", "y", "N", "a", "m", "e">>
s_frameTitle == <<"f", "r", "a", "m", "e", "T", "i", "t", "l", "e">>
s_activationTimestamp == <<"a", "c", "t", "i", "v", "a", "t", "i", "o", "n", "T", "i", "m", "e", "s", "t", "a", "m", "p">>
s_projectOpenTimestamp == <<"p", "r", "o", "j", "e", "c", "t", "O", "p", "e", "n", "T", "i", "m", "e", "s", "t", "a", "m", "p">>
s_build == <<"b", "u", "i", "l", "d">>
s_metadata == <<"m", "e", "t", "a", "d", "a", "t", "a">>
s_frame == <<"f", "r", "a", "m", "e">>
s_colorIndex == <<"c", "o", "l", "o", "r", "I", "n", "d", "e", "x">>
s_Unknown == <<"U", "n", "k", "n", "o", "w", "n">>
s_zero == <<"0">>
s_x_eq == <<"x", "=">>
s_y_eq == <<" ", "y", "=">>
s_w_eq == <<" ", "w", "=">>
s_h_eq == <<" ", "h", "=">>
s_None == <<"N", "o", "n", "e">>
s_space == <<" ">>
s_default_json == <<"j", "e", "t", "b", "r", "a", "i", "n", "s", "_", "p", "r", "o", "j", "e", "c", "t", "s", ".", "j", "s", "o", "n">>

\* str(Path.home())
HomePath == <<"/", "h", "o", "m", "e", "/", "u">>

Digits == <<"0", "1", "2", "3", "4", "5", "6", "7", "8", "9">>
Letters == {"A", "B", "C", "D", "E", "F", "G", "H", "I", "J", "K", "L", "M",
            "N", "O", "P", "Q", "R", "S", "T", "U", "V", "W", "X", "Y", "Z",
            "a", "b", "c", "d", "e", "f", "g", "h", "i", "j", "k", "l", "m",
            "n", "o", "p", "q", "r", "s", "t", "u", "v", "w", "x", "y", "z"}

\* the printable ASCII characters, in code point order from 32 (the grave
\* accent, which a TLA+ string cannot hold, by a name)
Ascii == <<" ", "!", "\"", "#", "$", "%", "&", "'", "(", ")", "*", "+", ",", "-", ".", "/",
          "0", "1", "2", "3", "4", "5", "6", "7", "8", "9", ":", ";", "<", "=", ">", "?",
          "@", "A", "B", "C", "D", "E", "F", "G", "H", "I", "J", "K", "L", "M", "N", "O",
          "P", "Q", "R", "S", "T", "U", "V", "W", "X", "Y", "Z", "[", "\\", "]", "^", "_",
          "<grave>", "a", "b", "c", "d", "e", "f", "g", "h", "i", "j", "k", "l", "m", "n", "o",
          "p", "q", "r", "s", "t", "u", "v", "w", "x", "y", "z", "{", "|", "}", "~">>

\* ord(c)
CodePoint(c) == 31 + (CHOOSE i \in 1..Len(Ascii) : Ascii[i] = c)

IsDigit(c) == \E i \in 1..Len(Digits) : Digits[i] = c

IsLetter(c) == c \in Letters

\* a < b for Python strings: lexicographic by code point, a proper prefix is less
RECURSIVE StrLess(_, _)
StrLess(a, b) ==
    IF b = <<>> THEN FALSE
    ELSE IF a = <<>> THEN TRUE
    ELSE IF a[1] = b[1] THEN StrLess(Tail(a), Tail(b))
    ELSE CodePoint(a[1]) < CodePoint(b[1])

\* int(s) of a string of decimal digits
RECURSIVE ParseInt(_)
ParseInt(s) ==
    IF s = <<>> THEN 0
    ELSE 10 * ParseInt(SubSeq(s, 1, Len(s) - 1)) + (CodePoint(s[Len(s)]) - 48)

\* sub in s
Contains(s, sub) ==
    \E i \in 1..(Len(s) + 1) :
        /\ i + Len(sub) - 1 <= Len(s)
        /\ SubSeq(s, i, i + Len(sub) - 1) = sub

\* s.replace(old, new): left to right, occurrences do not overlap
RECURSIVE Replace(_, _, _)
Replace(s, old, new) ==
    IF Len(s) < Len(old) THEN s
    ELSE IF SubSeq(s, 1, Len(old)) = old
         THEN new \o Replace(SubSeq(s, Len(old) + 1, Len(s)), old, new)
         ELSE <<s[1]>> \o Replace(Tail(s), old, new)

\* truth value of an Optional[str]
Truthy(v) == v # None /\ v # <<>>

\* d.get(k, default) of a dict
DictGet(d, k, default) == IF k \in DOMAIN d THEN d[k] ELSE default

\* d[k] = v
DictSet(d, k, v) == [kk \in DOMAIN d \cup {k} |-> IF kk = k THEN v ELSE d[kk]]

EmptyDict == [k \in {} |-> <<>>]

-----------------------------------------------------------------------------
(* ElementTree *)

NoAttrs == [a \in {} |-> <<>>]

Node(tag, parent, attrs) == [tag |-> tag, parent |-> parent, attrs |-> attrs]

\* elem.get(attr, default)
Get(doc, i, attr, default) ==
    IF attr \in DOMAIN doc[i].attrs THEN doc[i].attrs[attr] ELSE default

RECURSIVE IsDescendant(_, _, _)
IsDescendant(doc, j, i) ==
    /\ j > i
    /\ doc[j].parent # 0
    /\ \/ doc[j].parent = i
       \/ IsDescendant(doc, doc[j].parent, i)

Indices(doc) == [i \in 1..Len(doc) |-> i]

\* elem.findall('.//tag'): the descendants with the tag, in document order
FindAllDesc(doc, i, tag) ==
    SelectSeq(Indices(doc), LAMBDA j : IsDescendant(doc, j, i) /\ doc[j].tag = tag)

\* elem.findall('tag'): the children with the tag, in document order
FindAllChildren(doc, i, tag) ==
    SelectSeq(Indices(doc), LAMBDA j : doc[j].parent = i /\ doc[j].tag = tag)

\* find(): the first match, 0 for Python's None
First(s) == IF s = <<>> THEN 0 ELSE s[1]

\* elem.find('.//option[@name="<name>"]')
FindOption(doc, i, name) ==
    First(SelectSeq(FindAllDesc(doc, i, "option"),
                    LAMBDA j : Get(doc, j, "name", None) = name))

\* elem.find('.//option[@name="<name>"]/map'): the map children of the
\* matching options, options in document order
FindOptionMap(doc, i, name) ==
    LET opts == SelectSeq(FindAllDesc(doc, i, "option"),
                          LAMBDA j : Get(doc, j, "name", None) = name)
        withMap == SelectSeq(opts, LAMBDA j : FindAllChildren(doc, j, "map") # <<>>)
    IN  IF withMap = <<>> THEN 0 ELSE First(FindAllChildren(doc, withMap[1], "map"))

-----------------------------------------------------------------------------
(* JetBrainsProject *)

\* JetBrainsProject.__init__ with data.get(key) for every key: no '' defaults
JetBrainsProjectNoneDefaults(ide_name, ide_version, project_path, data) ==
    [ide_name |-> ide_name,
     ide_version |-> ide_version,
     project_path |-> project_path,
     display_name |-> DictGet(data, s_displayName, None),
     frame_title |-> DictGet(data, s_frameTitle, None),
     activation_timestamp |-> DictGet(data, s_activationTimestamp, None),
     project_open_timestamp |-> DictGet(data, s_projectOpenTimestamp, None),
     build |-> DictGet(data, s_build, None),
     metadata |-> DictGet(data, s_metadata, None),
     frame |-> DictGet(data, s_frame, None),
     color_index |-> DictGet(data, s_colorIndex, None)]

\* JetBrainsProject.__init__; the attribute is_last_opened is not created here
JetBrainsProject(ide_name, ide_version, project_path, data) ==
    [ide_name |-> ide_name,
     ide_version |-> ide_version,
     project_path |-> project_path,
     display_name |-> DictGet(data, s_displayName, <<>>),
     frame_title |-> DictGet(data, s_frameTitle, <<>>),
     activation_timestamp |-> DictGet(data, s_activationTimestamp, None),
     project_open_timestamp |-> DictGet(data, s_projectOpenTimestamp, None),
     build |-> DictGet(data, s_build, <<>>),
     metadata |-> DictGet(data, s_metadata, <<>>),
     frame |-> DictGet(data, s_frame, <<>>),
     color_index |-> DictGet(data, s_colorIndex, None)]

\* project.is_last_opened = True: creates the attribute
SetLastOpened(project) ==
    [f \in DOMAIN project \cup {"is_last_opened"} |->
        IF f = "is_last_opened" THEN TRUE ELSE project[f]]

\* get_activation_time / get_open_time: the instant in milliseconds, as a
\* one-element sequence, or None
GetTime(timestamp) ==
    IF Truthy(timestamp) THEN <<ParseInt(timestamp)>> ELSE None

-----------------------------------------------------------------------------
(* parse_recent_projects_xml *)

\* str(v) inside an f-string
Str(v) == IF v = None THEN s_None ELSE v

\* f"x={frame.get('x')} y={frame.get('y')} w={frame.get('width')} h={frame.get('height')}"
FrameString(doc, frame) ==
    s_x_eq \o Str(Get(doc, frame, "x", None)) \o
    s_y_eq \o Str(Get(doc, frame, "y", None)) \o
    s_w_eq \o Str(Get(doc, frame, "width", None)) \o
    s_h_eq \o Str(Get(doc, frame, "height", None))

\* for option in meta_info.findall('option'): if name and value: project_data[name] = value
RECURSIVE ApplyOptions(_, _, _)
ApplyOptions(doc, options, project_data) ==
    IF options = <<>> THEN project_data
    ELSE LET name == Get(doc, options[1], "name", None)
             value == Get(doc, options[1], "value", None)
         IN  ApplyOptions(doc, Tail(options),
                 IF Truthy(name) /\ Truthy(value)
                 THEN DictSet(project_data, name, value)
                 ELSE project_data)

\* the dict project_data built for one entry
ProjectData(doc, entry) ==
    LET meta_info == First(FindAllDesc(doc, entry, "RecentProjectMetaInfo"))
    IN  IF meta_info = 0 THEN EmptyDict
        ELSE
        LET d0 == DictSet(DictSet(EmptyDict,
                      s_displayName, Get(doc, meta_info, "displayName", <<>>)),
                      s_frameTitle, Get(doc, meta_info, "frameTitle", <<>>))
            d1 == ApplyOptions(doc, FindAllChildren(doc, meta_info, "option"), d0)
            color_info == First(FindAllDesc(doc, meta_info, "RecentProjectColorInfo"))
            d2 == IF color_info # 0
                  THEN DictSet(d1, s_colorIndex, Get(doc, color_info, "associatedIndex", None))
                  ELSE d1
            frame == First(FindAllChildren(doc, meta_info, "frame"))
        IN  IF frame # 0 THEN DictSet(d2, s_frame, FrameString(doc, frame)) ELSE d2

\* the key with the home placeholders replaced
ExpandHome(key) == Replace(Replace(key, s_USER_HOME, HomePath), s_HOME, HomePath)

\* the project built for one entry
EntryProject(doc, entry, ide_name, ide_version) ==
    JetBrainsProject(ide_name, ide_version,
                     ExpandHome(Get(doc, entry, "key", <<>>)),
                     ProjectData(doc, entry))

\* 'RecentProject' in name_attr or 'RecentSolution' in name_attr
IsRecentComponent(doc, component) ==
    LET name_attr == Get(doc, component, "name", <<>>)
    IN  Contains(name_attr, s_RecentProject) \/ Contains(name_attr, s_RecentSolution)

\* the entries the loop of one component visits: those of the first
\* additionalInfo map found below the component
ComponentEntries(doc, component) ==
    LET map_elem == FindOptionMap(doc, component, s_additionalInfo)
    IN  IF map_elem = 0 THEN <<>> ELSE FindAllChildren(doc, map_elem, "entry")

\* for project in projects: if project.project_path == last_project_path: ...
MarkLastOpened(projects, last_project_path) ==
    [i \in 1..Len(projects) |->
        IF projects[i].project_path = last_project_path
        THEN SetLastOpened(projects[i]) ELSE projects[i]]

\* the body of the loop over the components, for one matching component
ParseComponent(doc, component, projects, ide_name, ide_version) ==
    LET entries == ComponentEntries(doc, component)
        appended == projects \o
            [k \in 1..Len(entries) |-> EntryProject(doc, entries[k], ide_name, ide_version)]
        last_project_option == FindOption(doc, component, s_lastOpenedProject)
    IN  IF last_project_option = 0 THEN appended
        ELSE MarkLastOpened(appended, Get(doc, last_project_option, "value", <<>>))

RECURSIVE ParseComponents(_, _, _, _, _)
ParseComponents(doc, components, projects, ide_name, ide_version) ==
    IF components = <<>> THEN projects
    ELSE ParseComponents(doc, Tail(components),
             IF IsRecentComponent(doc, components[1])
             THEN ParseComponent(doc, components[1], projects, ide_name, ide_version)
             ELSE projects,
             ide_name, ide_version)

\* parse_recent_projects_xml without its try/except: the exception of ET.parse
\* leaves the function
parse_without_except(file, ide_name, ide_version) ==
    IF ~file.ok
    THEN [raised |-> TRUE, projects |-> <<>>, printed |-> <<>>]
    ELSE [raised |-> FALSE,
          projects |-> ParseComponents(file.doc, FindAllDesc(file.doc, 1, "component"),
                                       <<>>, ide_name, ide_version),
          printed |-> <<>>]

\* parse_recent_projects_xml.  A file is [ok, doc]: ET.parse raises on a file
\* that is not ok, and the except clause returns the empty list.  raised tells
\* whether an exception leaves the function, printed what it printed.
parse_recent_projects_xml(file, ide_name, ide_version) ==
    IF ~file.ok
    THEN [raised |-> FALSE, projects |-> <<>>, printed |-> <<[kind |-> "parse_error"]>>]
    ELSE [raised |-> FALSE,
          projects |-> ParseComponents(file.doc, FindAllDesc(file.doc, 1, "component"),
                                       <<>>, ide_name, ide_version),
          printed |-> <<>>]

\* the <<component, entry>> pairs in the order the two loops read them
RECURSIVE ReadEntries(_, _)
ReadEntries(doc, components) ==
    IF components = <<>> THEN <<>>
    ELSE (IF IsRecentComponent(doc, components[1])
          THEN LET entries == ComponentEntries(doc, components[1])
               IN  [k \in 1..Len(entries) |-> <<components[1], entries[k]>>]
          ELSE <<>>)
         \o ReadEntries(doc, Tail(components))

-----------------------------------------------------------------------------
(* find_all_recent_projects *)

\* the length of the longest prefix of s made of digits: \d+
RECURSIVE DigitRun(_)
DigitRun(s) == IF s = <<>> \/ ~IsDigit(s[1]) THEN 0 ELSE 1 + DigitRun(Tail(s))

\* the length of the longest prefix of s made of letters: [A-Za-z]+
RECURSIVE LetterRun(_)
LetterRun(s) == IF s = <<>> \/ ~IsLetter(s[1]) THEN 0 ELSE 1 + LetterRun(Tail(s))

Drop(s, n) == SubSeq(s, n + 1, Len(s))

\* the length matched by \d+\.\d+(?:\.\d+)? at the start of s, 0 for no match
VersionRun(s) ==
    LET d1 == DigitRun(s)
        r1 == Drop(s, d1)
        d2 == IF r1 # <<>> /\ r1[1] = "." THEN DigitRun(Tail(r1)) ELSE 0
        r2 == Drop(r1, 1 + d2)
        d3 == IF r2 # <<>> /\ r2[1] = "." THEN DigitRun(Tail(r2)) ELSE 0
    IN  IF d1 = 0 \/ d2 = 0 THEN 0
        ELSE IF d3 = 0 THEN d1 + 1 + d2
        ELSE d1 + 1 + d2 + 1 + d3

\* re.match(r'([A-Za-z]+)(\d+\.\d+(?:\.\d+)?)', ide_full_name) and the two
\* assignments that follow it
SplitIdeName(ide_full_name) ==
    LET letters == LetterRun(ide_full_name)
        version == VersionRun(Drop(ide_full_name, letters))
    IN  IF letters > 0 /\ version > 0
        THEN [ide_name |-> SubSeq(ide_full_name, 1, letters),
              ide_version |-> SubSeq(ide_full_name, letters + 1, letters + version)]
        ELSE [ide_name |-> ide_full_name, ide_version |-> s_Unknown]

\* the loop over ['recentProjects.xml', 'recentSolutions.xml'] of one options
\* directory: a file is [exists, ok, doc]; an exception ends the loop
RECURSIVE ParseFiles(_, _, _)
ParseFiles(files, ide_name, ide_version) ==
    IF files = <<>> THEN [raised |-> FALSE, projects |-> <<>>, printed |-> <<>>]
    ELSE IF ~files[1].exists THEN ParseFiles(Tail(files), ide_name, ide_version)
    ELSE LET first == parse_recent_projects_xml(files[1], ide_name, ide_version)
             rest == ParseFiles(Tail(files), ide_name, ide_version)
         IN  IF first.raised THEN first
             ELSE [raised |-> rest.raised,
                   projects |-> first.projects \o rest.projects,
                   printed |-> first.printed \o rest.printed]

\* the body of the loop over config_dir.iterdir() for one directory entry
\* [name, is_dir, options_exists, files]
VisitIdeDir(ide_dir) ==
    IF ~ide_dir.is_dir \/ ~ide_dir.options_exists
    THEN [raised |-> FALSE, projects |-> <<>>, printed |-> <<>>]
    ELSE LET ide == SplitIdeName(ide_dir.name)
         IN  ParseFiles(ide_dir.files, ide.ide_name, ide.ide_version)

-----------------------------------------------------------------------------
(* the views *)

\* key=lambda p: p.activation_timestamp or '0'
SortKey(p) == IF Truthy(p.activation_timestamp) THEN p.activation_timestamp ELSE s_zero

\* one step of the sort without reverse=True: ascending
InsertAsc(sorted, x) ==
    LET n == Cardinality({i \in 1..Len(sorted) : ~StrLess(SortKey(x), SortKey(sorted[i]))})
    IN  SubSeq(sorted, 1, n) \o <<x>> \o SubSeq(sorted, n + 1, Len(sorted))

\* one step of a stable descending sort: x goes behind the elements whose key
\* is not less than its own
InsertDesc(sorted, x) ==
    LET n == Cardinality({i \in 1..Len(sorted) : ~StrLess(SortKey(sorted[i]), SortKey(x))})
    IN  SubSeq(sorted, 1, n) \o <<x>> \o SubSeq(sorted, n + 1, Len(sorted))

\* sorted(projects, key=..., reverse=True) and list.sort(key=..., reverse=True):
\* stable, equal keys keep their order
RECURSIVE SortByActivation(_)
SortByActivation(projects) ==
    IF projects = <<>> THEN <<>>
    ELSE InsertDesc(SortByActivation(SubSeq(projects, 1, Len(projects) - 1)),
                    projects[Len(projects)])

\* f"{project.ide_name} {project.ide_version}"
IdeKey(project) == project.ide_name \o s_space \o project.ide_version

\* sorted(projects_by_ide.keys())
RECURSIVE SortedKeys(_)
SortedKeys(keys) ==
    IF keys = {} THEN <<>>
    ELSE LET least == CHOOSE k \in keys : \A other \in keys \ {k} : StrLess(k, other)
         IN  <<least>> \o SortedKeys(keys \ {least})

\* what the report prints of the projects of one list, in order: the number,
\* the project and the result of os.path.exists at that moment (the layout of
\* the lines is not modelled)
Printed(projects, disk) ==
    [i \in 1..Len(projects) |->
        [number |-> i, project |-> projects[i],
         exists |-> projects[i].project_path \in disk]]

\* the section display_projects_by_ide prints
ByIdeSection(projects, disk) ==
    LET keys == {IdeKey(projects[i]) : i \in 1..Len(projects)}
        projects_by_ide == [k \in keys |->
            SortByActivation(SelectSeq(projects, LAMBDA p : IdeKey(p) = k))]
        order == SortedKeys(keys)
    IN  [kind |-> "by_ide",
         groups |-> [g \in 1..Len(order) |->
                        [ide_key |-> order[g],
                         entries |-> Printed(projects_by_ide[order[g]], disk)]],
         total |-> Len(projects)]

\* the section display_all_projects_sorted prints
AllSortedSection(projects, disk) ==
    [kind |-> "all_sorted",
     groups |-> <<[ide_key |-> <<>>, entries |-> Printed(SortByActivation(projects), disk)]>>,
     total |-> Len(projects)]

\* display_projects_by_ide(projects): what it prints, and the caller's list
\* after the call (the function sorts the lists of its own dict only)
display_projects_by_ide(projects, disk) ==
    [section |-> ByIdeSection(projects, disk), projects |-> projects]

\* display_all_projects_sorted with projects.sort(...) in place of sorted(...)
display_all_projects_sorted_in_place(projects, disk) ==
    [section |-> AllSortedSection(projects, disk), projects |-> SortByActivation(projects)]

\* display_all_projects_sorted(projects): what it prints, and the caller's list
\* after the call (sorted() builds a new list)
display_all_projects_sorted(projects, disk) ==
    [section |-> AllSortedSection(projects, disk), projects |-> projects]

-----------------------------------------------------------------------------
(* export_to_json *)

\* os.environ.get('JSON_OUTPUT_PATH', 'jetbrains_projects.json')
OutputFile(env) == IF env = None THEN s_default_json ELSE env

\* the object with the existence probe applied to the display name
ExportObjectWrongProbe(project, disk) ==
    [ide_name |-> project.ide_name,
     ide_version |-> project.ide_version,
     project_path |-> project.project_path,
     display_name |-> project.display_name,
     frame_title |-> project.frame_title,
     activation_timestamp |-> project.activation_timestamp,
     project_open_timestamp |-> project.project_open_timestamp,
     activation_time |-> GetTime(project.activation_timestamp),
     build |-> project.build,
     frame |-> project.frame,
     color_index |-> project.color_index,
     exists |-> project.display_name \in disk]

\* the object appended to data for one project
ExportObject(project, disk) ==
    [ide_name |-> project.ide_name,
     ide_version |-> project.ide_version,
     project_path |-> project.project_path,
     display_name |-> project.display_name,
     frame_title |-> project.frame_title,
     activation_timestamp |-> project.activation_timestamp,
     project_open_timestamp |-> project.project_open_timestamp,
     activation_time |-> GetTime(project.activation_timestamp),
     build |-> project.build,
     frame |-> project.frame,
     color_index |-> project.color_index,
     exists |-> project.project_path \in disk]

\* export_to_json(projects): the file it writes
export_to_json(projects, disk, env) ==
    [name |-> OutputFile(env),
     data |-> [i \in 1..Len(projects) |-> ExportObject(projects[i], disk)]]

-----------------------------------------------------------------------------
(* Inputs: metadata files and directories *)

MaxDirs == 2
MaxCalls == 2

n_RecentProjectsManager == <<"R", "e", "c", "e", "n", "t", "P", "r", "o", "j", "e", "c", "t", "s", "M", "a", "n", "a", "g", "e", "r">>
n_RiderRecentSolutionsManager == <<"R", "i", "d", "e", "r", "R", "e", "c", "e", "n", "t", "S", "o", "l", "u", "t", "i", "o", "n", "s", "M", "a", "n", "a", "g", "e", "r">>
n_EditorSettings == <<"E", "d", "i", "t", "o", "r", "S", "e", "t", "t", "i", "n", "g", "s">>
n_colorInfo == <<"c", "o", "l", "o", "r", "I", "n", "f", "o">>
k_a == <<"/", "a">>
k_b == <<"/", "b">>
k_home_p == <<"$", "U", "S", "E", "R", "_", "H", "O", "M", "E", "$", "/", "p">>
k_home2_p == <<"$", "H", "O", "M", "E", "$", "/", "p">>
p_home_p == <<"/", "h", "o", "m", "e", "/", "u", "/", "p">>
t_0 == <<"0">>
t_9 == <<"9">>
t_10 == <<"1", "0">>
v_1 == <<"1">>
v_2 == <<"2">>
v_name == <<"n">>
v_build == <<"R", "D">>
v_out == <<"/", "o", ".", "j", "s", "o", "n">>
d_Rider == <<"R", "i", "d", "e", "r", "2", "0", "2", "5", ".", "1">>
d_CLion == <<"C", "L", "i", "o", "n">>
d_Idea == <<"I", "d", "e", "a", "1", ".", "2", ".", "3">>

\* an element with its children, and the document (elements in document
\* order, each with the index of its parent) of a tree
E(tag, attrs, kids) == [tag |-> tag, attrs |-> attrs, kids |-> kids]

RECURSIVE Flatten(_, _, _)
RECURSIVE FlattenKids(_, _, _)
Flatten(tree, parent, base) ==
    <<Node(tree.tag, parent, tree.attrs)>> \o FlattenKids(tree.kids, base + 1, base + 1)
FlattenKids(kids, parent, base) ==
    IF kids = <<>> THEN <<>>
    ELSE LET first == Flatten(kids[1], parent, base)
         IN  first \o FlattenKids(Tail(kids), parent, base + Len(first))

XmlFile(tree) == [exists |-> TRUE, ok |-> TRUE, doc |-> Flatten(tree, 0, 0)]
Broken == [exists |-> TRUE, ok |-> FALSE, doc |-> <<>>]
Missing == [exists |-> FALSE, ok |-> FALSE, doc |-> <<>>]

App(kids) == E("application", NoAttrs, kids)
Comp(name, kids) == E("component", [name |-> name], kids)
AddInfo(entries) == E("option", [name |-> s_additionalInfo], <<E("map", NoAttrs, entries)>>)
LastOpened(value) == E("option", [name |-> s_lastOpenedProject, value |-> value], <<>>)
Opt(name, value) == E("option", [name |-> name, value |-> value], <<>>)
Entry(key, kids) == E("entry", [key |-> key], kids)
Meta(attrs, kids) == E("value", NoAttrs, <<E("RecentProjectMetaInfo", attrs, kids)>>)
Frame(attrs) == E("frame", attrs, <<>>)
Color(attrs) == E("option", [name |-> n_colorInfo], <<E("RecentProjectColorInfo", attrs, <<>>)>>)

\* an entry whose metadata holds at most an activation timestamp
TsEntry(key, ts) ==
    Entry(key, <<Meta(NoAttrs, IF ts = None THEN <<>> ELSE <<Opt(s_activationTimestamp, ts)>>)>>)

\* an entry with a display name (None: no attribute), a timestamp (None: no
\* option) and a frame element with the attributes of frame[1] (<<>>: none)
MetaEntry(key, name, ts, frame) ==
    Entry(key, <<Meta(IF name = None THEN NoAttrs ELSE [displayName |-> name],
                      (IF ts = None THEN <<>> ELSE <<Opt(s_activationTimestamp, ts)>>)
                      \o (IF frame = <<>> THEN <<>>
                          ELSE <<Frame([a \in frame[1] |-> v_1])>>))>>)

FrameChoices == {<<>>} \cup {<<attrs>> : attrs \in SUBSET {"x", "y", "width", "height"}}

\* one recent-projects component with one entry, designated as last opened
MetaFiles ==
    {XmlFile(App(<<Comp(n_RecentProjectsManager,
                        <<AddInfo(<<MetaEntry(k_home_p, name, ts, frame)>>),
                          LastOpened(p_home_p)>>)>>)) :
        name \in {None, <<>>, v_name}, ts \in {None, t_10}, frame \in FrameChoices}

FullEntry ==
    Entry(k_home2_p,
          <<Meta([displayName |-> v_name, frameTitle |-> v_name],
                 <<Opt(s_activationTimestamp, t_9), Opt(s_projectOpenTimestamp, t_10),
                   Opt(s_build, v_build), Opt(s_build, <<>>), Color([associatedIndex |-> v_2]),
                   Frame([x |-> v_1, y |-> v_1, width |-> v_2, height |-> v_2])>>)>>)

ShapeFiles ==
    { Broken,
      \* no metadata element; no designator, one matching no entry, the raw key
      XmlFile(App(<<Comp(n_RecentProjectsManager, <<AddInfo(<<Entry(k_a, <<>>)>>)>>)>>)),
      XmlFile(App(<<Comp(n_RecentProjectsManager,
                         <<AddInfo(<<Entry(k_a, <<>>)>>), LastOpened(k_b)>>)>>)),
      XmlFile(App(<<Comp(n_RecentProjectsManager,
                         <<AddInfo(<<Entry(k_home_p, <<>>)>>), LastOpened(k_home_p)>>)>>)),
      \* every field present; a colour element without index; an entry without key
      XmlFile(App(<<Comp(n_RiderRecentSolutionsManager,
                         <<AddInfo(<<FullEntry, Entry(k_a, <<>>)>>), LastOpened(k_a)>>)>>)),
      XmlFile(App(<<Comp(n_RecentProjectsManager,
                         <<AddInfo(<<Entry(k_b, <<Meta(NoAttrs, <<Color(NoAttrs)>>)>>),
                                     E("entry", NoAttrs, <<>>)>>)>>)>>)),
      \* entries in ascending order of activation
      XmlFile(App(<<Comp(n_RecentProjectsManager,
                         <<AddInfo(<<TsEntry(k_a, None), TsEntry(k_b, t_9),
                                     TsEntry(k_home_p, t_10)>>)>>)>>)),
      \* a component that is no recent-projects component; one without a map
      XmlFile(App(<<Comp(n_EditorSettings, <<AddInfo(<<Entry(k_a, <<>>)>>)>>)>>)),
      XmlFile(App(<<Comp(n_RecentProjectsManager, <<LastOpened(k_a)>>)>>)),
      \* two components in one file, each designating the other's entry
      XmlFile(App(<<Comp(n_RecentProjectsManager,
                         <<AddInfo(<<Entry(k_a, <<>>)>>), LastOpened(k_b)>>),
                    Comp(n_RiderRecentSolutionsManager,
                         <<AddInfo(<<Entry(k_b, <<>>)>>), LastOpened(k_a)>>)>>)),
      \* nested components: the inner one first, the outer one's own map first
      XmlFile(App(<<Comp(n_RecentProjectsManager,
                         <<Comp(n_RiderRecentSolutionsManager,
                                <<AddInfo(<<Entry(k_a, <<>>)>>)>>),
                           AddInfo(<<Entry(k_b, <<>>)>>)>>)>>)),
      XmlFile(App(<<Comp(n_RecentProjectsManager,
                         <<AddInfo(<<Entry(k_b, <<>>)>>),
                           Comp(n_RiderRecentSolutionsManager,
                                <<AddInfo(<<Entry(k_a, <<>>)>>)>>)>>)>>)) }

\* the files parse_recent_projects_xml is called with directly
ApiFiles == MetaFiles \cup ShapeFiles

\* the files of the scanned directories
TieFile ==
    XmlFile(App(<<Comp(n_RecentProjectsManager,
                       <<AddInfo(<<TsEntry(k_a, None), TsEntry(k_b, t_0)>>),
                         LastOpened(k_b)>>)>>))
LengthFile ==
    XmlFile(App(<<Comp(n_RecentProjectsManager,
                       <<AddInfo(<<TsEntry(k_home_p, t_9), TsEntry(k_a, t_10)>>)>>)>>))
OneFile ==
    XmlFile(App(<<Comp(n_RiderRecentSolutionsManager,
                       <<AddInfo(<<TsEntry(k_b, t_10)>>)>>)>>))
NoMapFile == XmlFile(App(<<Comp(n_RecentProjectsManager, <<>>)>>))

\* <<recentProjects.xml, recentSolutions.xml>> of an options directory
OptionsDirs ==
    { <<TieFile, Missing>>, <<LengthFile, Broken>>, <<Broken, OneFile>>,
      <<TieFile, OneFile>>, <<NoMapFile, Missing>> }

\* the entries of ~/.config/JetBrains: a plain file, a directory without
\* options, a directory with options
IdeDirs ==
    { [name |-> d_CLion, is_dir |-> FALSE, options_exists |-> FALSE, files |-> <<Missing, Missing>>],
      [name |-> d_Idea, is_dir |-> TRUE, options_exists |-> FALSE, files |-> <<Missing, Missing>>] }
    \cup
    { [name |-> name, is_dir |-> TRUE, options_exists |-> TRUE, files |-> files] :
        name \in {d_Rider, d_CLion, d_Idea}, files \in OptionsDirs }

\* the project paths whose existence changes
Paths == {k_a, p_home_p}

-----------------------------------------------------------------------------
(* main() *)

Init ==
    /\ environ \in {None, v_out}
    /\ config_exists \in BOOLEAN
    /\ visited = <<>>
    /\ all_projects = <<>>
    /\ pc = "start"
    /\ stdout = <<>>
    /\ json_file = <<>>
    /\ fs \in SUBSET Paths
    /\ xml_file = Missing
    /\ parsed = <<>>

\* the test of main inverted
InteractiveInverted == environ # None

\* 'JSON_OUTPUT_PATH' not in os.environ
Interactive == environ = None

\* main up to the call of find_all_recent_projects, and that function up to
\* its loop
BeginScan ==
    /\ pc = "start"
    /\ pc' = IF config_exists THEN "scan" ELSE "scanned"
    /\ stdout' = (IF Interactive THEN <<[kind |-> "scanning"]>> ELSE <<>>)
                 \o (IF config_exists THEN <<>> ELSE <<[kind |-> "config_not_found"]>>)
    /\ UNCHANGED <<environ, config_exists, visited, all_projects, json_file, fs,
                   xml_file, parsed>>

\* one iteration of the loop over config_dir.iterdir()
VisitDir ==
    /\ pc = "scan"
    /\ Len(visited) < MaxDirs
    /\ \E ide_dir \in IdeDirs :
        /\ \A i \in 1..Len(visited) : visited[i].name # ide_dir.name
        /\ LET found == VisitIdeDir(ide_dir)
           IN  /\ visited' = Append(visited, ide_dir)
               /\ stdout' = stdout \o found.printed
               /\ IF found.raised
                  THEN pc' = "crashed" /\ all_projects' = all_projects
                  ELSE pc' = pc /\ all_projects' = all_projects \o found.projects
    /\ UNCHANGED <<environ, config_exists, json_file, fs, xml_file, parsed>>

\* the loop ends: return all_projects
EndScan ==
    /\ pc = "scan"
    /\ pc' = "scanned"
    /\ UNCHANGED <<environ, config_exists, visited, all_projects, stdout, json_file,
                   fs, xml_file, parsed>>

\* if 'JSON_OUTPUT_PATH' in os.environ: export_to_json(projects); return
SilentExport ==
    /\ pc = "scanned"
    /\ ~Interactive
    /\ json_file' = <<export_to_json(all_projects, fs, environ)>>
    /\ stdout' = Append(stdout, [kind |-> "exported"])
    /\ pc' = "done"
    /\ UNCHANGED <<environ, config_exists, visited, all_projects, fs, xml_file, parsed>>

\* if not projects: print("No projects found."); return
NoProjects ==
    /\ pc = "scanned"
    /\ Interactive
    /\ all_projects = <<>>
    /\ stdout' = Append(stdout, [kind |-> "no_projects"])
    /\ pc' = "done"
    /\ UNCHANGED <<environ, config_exists, visited, all_projects, json_file, fs,
                   xml_file, parsed>>

DisplayByIde ==
    /\ pc = "scanned"
    /\ Interactive
    /\ all_projects # <<>>
    /\ LET call == display_projects_by_ide(all_projects, fs)
       IN  /\ stdout' = Append(stdout, call.section)
           /\ all_projects' = call.projects
    /\ pc' = "by_ide_done"
    /\ UNCHANGED <<environ, config_exists, visited, json_file, fs, xml_file, parsed>>

DisplayAllSorted ==
    /\ pc = "by_ide_done"
    /\ LET call == display_all_projects_sorted(all_projects, fs)
       IN  /\ stdout' = Append(stdout, call.section)
           /\ all_projects' = call.projects
    /\ pc' = "all_sorted_done"
    /\ UNCHANGED <<environ, config_exists, visited, json_file, fs, xml_file, parsed>>

Export ==
    /\ pc = "all_sorted_done"
    /\ json_file' = <<export_to_json(all_projects, fs, environ)>>
    /\ stdout' = Append(stdout, [kind |-> "exported"])
    /\ pc' = "done"
    /\ UNCHANGED <<environ, config_exists, visited, all_projects, fs, xml_file, parsed>>

\* a project directory is created or removed while the program runs
FsChange ==
    /\ pc \in {"start", "scan", "scanned", "by_ide_done", "all_sorted_done"}
    /\ \E path \in Paths :
        fs' = IF path \in fs THEN fs \ {path} ELSE fs \cup {path}
    /\ UNCHANGED <<environ, config_exists, visited, all_projects, pc, stdout,
                   json_file, xml_file, parsed>>

Next ==
    \/ BeginScan
    \/ VisitDir
    \/ EndScan
    \/ SilentExport
    \/ NoProjects
    \/ DisplayByIde
    \/ DisplayAllSorted
    \/ Export
    \/ FsChange

Spec == Init /\ [][Next]_vars

-----------------------------------------------------------------------------
(* The functions called directly: one file parsed, then its list shown and  *)
(* exported in any order                                                    *)

InitApi ==
    /\ environ = None
    /\ config_exists = TRUE
    /\ visited = <<>>
    /\ all_projects = <<>>
    /\ pc = "api"
    /\ stdout = <<>>
    /\ json_file = <<>>
    /\ fs = {k_a}
    /\ xml_file = Missing
    /\ parsed = <<>>

ApiIde == SplitIdeName(d_Rider)

ParseCall ==
    /\ pc = "api"
    /\ \E file \in ApiFiles :
        LET call == parse_recent_projects_xml(file, ApiIde.ide_name, ApiIde.ide_version)
        IN  /\ ~call.raised
            /\ xml_file' = file
            /\ parsed' = call.projects
    /\ pc' = "parsed"
    /\ UNCHANGED <<environ, config_exists, visited, all_projects, stdout, json_file, fs>>

DisplayByIdeCall ==
    /\ pc = "parsed"
    /\ Len(stdout) < MaxCalls
    /\ LET call == display_projects_by_ide(parsed, fs)
       IN  /\ stdout' = Append(stdout, call.section)
           /\ parsed' = call.projects
    /\ UNCHANGED <<environ, config_exists, visited, all_projects, pc, json_file, fs, xml_file>>

DisplayAllSortedCall ==
    /\ pc = "parsed"
    /\ Len(stdout) < MaxCalls
    /\ LET call == display_all_projects_sorted(parsed, fs)
       IN  /\ stdout' = Append(stdout, call.section)
           /\ parsed' = call.projects
    /\ UNCHANGED <<environ, config_exists, visited, all_projects, pc, json_file, fs, xml_file>>

ExportCall ==
    /\ pc = "parsed"
    /\ json_file' = <<export_to_json(parsed, fs, environ)>>
    /\ pc' = "exported"
    /\ UNCHANGED <<environ, config_exists, visited, all_projects, stdout, fs, xml_file, parsed>>

NextApi ==
    \/ ParseCall
    \/ DisplayByIdeCall
    \/ DisplayAllSortedCall
    \/ ExportCall

SpecApi == InitApi /\ [][NextApi]_vars

-----------------------------------------------------------------------------
(* Properties of main() and of the views                                    *)

HasSection(kind) == \E i \in 1..Len(stdout) : stdout[i].kind = kind

Written == json_file # <<>>

\* the printed lists: the partitions of the grouped view and the global view
PrintedLists ==
    UNION { {stdout[i].groups[g].entries : g \in 1..Len(stdout[i].groups)} :
            i \in {k \in 1..Len(stdout) : stdout[k].kind \in {"by_ide", "all_sorted"}} }

\* C1 as stated: a finished run with JSON_OUTPUT_PATH set has written the
\* export and printed no report section; a finished run without it has printed
\* both report sections and written the export to the default name, also when
\* the scan found nothing.
C1_EveryRunExports ==
    pc = "done" =>
        /\ environ # None => Written /\ ~HasSection("by_ide") /\ ~HasSection("all_sorted")
        /\ environ = None => /\ HasSection("by_ide") /\ HasSection("all_sorted")
                          /\ Written /\ json_file[1].name = s_default_json

\* C1 amended: as above when the scan found at least one project; an
\* interactive run whose scan found nothing prints no report section and
\* writes no export.
C1_ModeSelection ==
    pc = "done" =>
        /\ environ # None => Written /\ ~HasSection("by_ide") /\ ~HasSection("all_sorted")
        /\ (environ = None /\ all_projects # <<>>) =>
               /\ HasSection("by_ide") /\ HasSection("all_sorted")
               /\ Written /\ json_file[1].name = s_default_json
        /\ (environ = None /\ all_projects = <<>>) =>
               ~Written /\ ~HasSection("by_ide") /\ ~HasSection("all_sorted")

C1_Witness ==
    /\ pc = "done" /\ environ = None /\ Written
    /\ HasSection("by_ide") /\ HasSection("all_sorted")

\* the files the scan has handed to the parser, in visiting order, each with
\* the name of its directory
RECURSIVE VisitedFiles(_)
VisitedFiles(dirs) ==
    IF dirs = <<>> THEN <<>>
    ELSE (IF dirs[1].is_dir /\ dirs[1].options_exists
          THEN [k \in 1..Len(SelectSeq(dirs[1].files, LAMBDA f : f.exists)) |->
                   [file |-> SelectSeq(dirs[1].files, LAMBDA f : f.exists)[k],
                    ide |-> SplitIdeName(dirs[1].name)]]
          ELSE <<>>)
         \o VisitedFiles(Tail(dirs))

\* the records of the files that parse, concatenated in visiting order
RECURSIVE RecordsOfParsable(_)
RecordsOfParsable(files) ==
    IF files = <<>> THEN <<>>
    ELSE (IF files[1].file.ok
          THEN ParseComponents(files[1].file.doc,
                               FindAllDesc(files[1].file.doc, 1, "component"),
                               <<>>, files[1].ide.ide_name, files[1].ide.ide_version)
          ELSE <<>>)
         \o RecordsOfParsable(Tail(files))

\* C2: no exception leaves the scan, and the scan result is the concatenation,
\* in visiting order, of the records of the files that parse: a file that
\* fails to parse adds nothing and takes nothing away.
C2_FailureIsolated ==
    /\ pc # "crashed"
    /\ all_projects = RecordsOfParsable(VisitedFiles(visited))

C2_Witness ==
    /\ pc = "scanned"
    /\ Len(visited) = 2
    /\ Len(VisitedFiles(visited)) >= 2
    /\ ~VisitedFiles(visited)[1].file.ok
    /\ \E k \in 2..Len(VisitedFiles(visited)) : VisitedFiles(visited)[k].file.ok
    /\ all_projects # <<>>

Absent(entry) == entry.project.activation_timestamp = None

\* C5 as stated: in every printed list, every record with a present
\* activationTimestamp stands before every record whose activationTimestamp is
\* absent.
C5_PresentBeforeAbsent ==
    \A list \in PrintedLists : \A i, j \in 1..Len(list) :
        (~Absent(list[i]) /\ Absent(list[j])) => i < j

\* C5 amended: every record whose activationTimestamp is a string of decimal
\* digits other than "0" stands before every record whose activationTimestamp
\* is absent (the absent key is the string "0", which ties with a present "0").
C5_NonZeroBeforeAbsent ==
    \A list \in PrintedLists : \A i, j \in 1..Len(list) :
        (/\ ~Absent(list[i])
         /\ list[i].project.activation_timestamp # t_0
         /\ Absent(list[j])) => i < j

C5_Witness ==
    \E list \in PrintedLists :
        /\ Len(list) = 3
        /\ list[1].project.activation_timestamp = t_10
        /\ Absent(list[2])
        /\ Absent([project |-> all_projects[1]])

\* the recency key as an integer number of milliseconds, 0 when absent
IntKey(entry) ==
    IF Absent(entry) THEN 0 ELSE ParseInt(entry.project.activation_timestamp)

\* C9: in every printed list the integer recency keys of adjacent records
\* descend.
C9_DescendingIntegers ==
    \A list \in PrintedLists : \A i \in 1..(Len(list) - 1) :
        IntKey(list[i]) >= IntKey(list[i + 1])

\* C7: whenever export_to_json writes, the written sequence has one object per
\* record of the list, in list order, and each object's exists is the state of
\* the disk at that moment.
C7_ExportFresh ==
    [][json_file' # json_file =>
        LET data == json_file'[1].data
        IN  /\ Len(data) = Len(all_projects)
            /\ \A i \in 1..Len(data) :
                /\ data[i].project_path = all_projects[i].project_path
                /\ data[i].ide_name = all_projects[i].ide_name
                /\ data[i].ide_version = all_projects[i].ide_version
                /\ data[i].activation_timestamp = all_projects[i].activation_timestamp
                /\ data[i].exists = (all_projects[i].project_path \in fs)]_vars

\* the disk changed between the global view and the export
C7_Witness ==
    /\ Written
    /\ Len(json_file[1].data) >= 2
    /\ \E list \in PrintedLists : \E i \in 1..Len(list) : \E j \in 1..Len(json_file[1].data) :
        /\ json_file[1].data[j].project_path = list[i].project.project_path
        /\ json_file[1].data[j].exists # list[i].exists

-----------------------------------------------------------------------------
(* Properties of parse_recent_projects_xml and of the functions called      *)
(* directly                                                                 *)

Called == pc \in {"parsed", "exported"} /\ xml_file.ok

Doc == xml_file.doc

\* the <<component, entry>> each record of parsed was read from
Sources == ReadEntries(Doc, FindAllDesc(Doc, 1, "component"))

\* the innermost component an element lies in, 0 for none
RECURSIVE EnclosingComponent(_, _)
EnclosingComponent(doc, i) ==
    IF doc[i].parent = 0 THEN 0
    ELSE IF doc[doc[i].parent].tag = "component" THEN doc[i].parent
    ELSE EnclosingComponent(doc, doc[i].parent)

\* the entry elements of the additionalInfo map of a recent-projects component
MapEntries(doc) ==
    {e \in 1..Len(doc) :
        /\ doc[e].tag = "entry"
        /\ doc[e].parent # 0
        /\ doc[doc[e].parent].tag = "map"
        /\ doc[doc[e].parent].parent # 0
        /\ doc[doc[doc[e].parent].parent].tag = "option"
        /\ Get(doc, doc[doc[e].parent].parent, "name", None) = s_additionalInfo
        /\ EnclosingComponent(doc, e) # 0
        /\ IsRecentComponent(doc, EnclosingComponent(doc, e))}

\* C3: the records and the entry elements correspond one to one, each record's
\* path being the entry's key with the home placeholders replaced.
C3_OneRecordPerEntry ==
    Called =>
        \A path \in {ExpandHome(Get(Doc, e, "key", <<>>)) : e \in MapEntries(Doc)}
                    \cup {parsed[i].project_path : i \in 1..Len(parsed)} :
            Cardinality({i \in 1..Len(parsed) : parsed[i].project_path = path})
            = Cardinality({e \in MapEntries(Doc) : ExpandHome(Get(Doc, e, "key", <<>>)) = path})

\* the frame element of an entry's metadata element, 0 for none
FrameOf(doc, entry) ==
    LET meta_info == First(FindAllDesc(doc, entry, "RecentProjectMetaInfo"))
    IN  IF meta_info = 0 THEN 0 ELSE First(FindAllChildren(doc, meta_info, "frame"))

\* C4: a record's frame is populated exactly when the entry's frame element
\* carries x, y, width and height.
C4_GeometryAllOrNothing ==
    Called =>
        \A i \in 1..Len(parsed) :
            (parsed[i].frame # <<>> /\ parsed[i].frame # None)
            <=> /\ FrameOf(Doc, Sources[i][2]) # 0
                /\ {"x", "y", "width", "height"}
                       \subseteq DOMAIN Doc[FrameOf(Doc, Sources[i][2])].attrs

\* C6: every record has a boolean is_last_opened, true exactly when the
\* lastOpenedProject option of the record's component has the record's path as
\* its value.
C6_LastOpenedFlag ==
    Called =>
        \A i \in 1..Len(parsed) :
            /\ "is_last_opened" \in DOMAIN parsed[i]
            /\ parsed[i].is_last_opened =
                  LET designator == FindOption(Doc, Sources[i][1], s_lastOpenedProject)
                  IN  /\ designator # 0
                      /\ Get(Doc, designator, "value", <<>>) = parsed[i].project_path

\* whether the metadata element of an entry gives no value for a key of
\* project_data: no such attribute of the element (for displayName and
\* frameTitle), no option child with that name and a value, no frame child
\* (for frame), no colour element with an index (for colorIndex)
AbsentInSource(doc, entry, key) ==
    LET meta_info == First(FindAllDesc(doc, entry, "RecentProjectMetaInfo"))
    IN  \/ meta_info = 0
        \/ /\ \A o \in 1..Len(doc) :
                  (doc[o].parent = meta_info /\ doc[o].tag = "option"
                   /\ Get(doc, o, "name", None) = key)
                  => ~Truthy(Get(doc, o, "value", None))
           /\ key = s_displayName => "displayName" \notin DOMAIN doc[meta_info].attrs
           /\ key = s_frameTitle => "frameTitle" \notin DOMAIN doc[meta_info].attrs
           /\ key = s_frame => FindAllChildren(doc, meta_info, "frame") = <<>>
           /\ key = s_colorIndex =>
                  \A c \in 1..Len(doc) :
                      (IsDescendant(doc, c, meta_info) /\ doc[c].tag = "RecentProjectColorInfo")
                      => "associatedIndex" \notin DOMAIN doc[c].attrs

\* the optional fields of a record (and of an exported object) and the keys
\* of project_data they are read from
OptionalFields ==
    { <<"display_name", s_displayName>>, <<"frame_title", s_frameTitle>>,
      <<"build", s_build>>, <<"frame", s_frame>>, <<"color_index", s_colorIndex>>,
      <<"activation_timestamp", s_activationTimestamp>>,
      <<"project_open_timestamp", s_projectOpenTimestamp>> }

StringFields == {"display_name", "frame_title", "build", "frame"}

C10_ViewsDoNotMutate ==
    Called =>
        LET scanned == ParseComponents(Doc, FindAllDesc(Doc, 1, "component"), <<>>,
                                       ApiIde.ide_name, ApiIde.ide_version)
        IN  /\ parsed = scanned
            /\ Written =>
                   /\ Len(json_file[1].data) = Len(scanned)
                   /\ \A i \in 1..Len(scanned) :
                          json_file[1].data[i].project_path = scanned[i].project_path

\* the global view, then the grouped view, then the export, of a list that is
\* not in the order of the views
C10_Witness ==
    /\ pc = "exported"
    /\ Len(stdout) = 2
    /\ stdout[1].kind = "all_sorted"
    /\ stdout[2].kind = "by_ide"
    /\ SortByActivation(parsed) # parsed

====
